---------------------------- MODULE Spec2Model ----------------------------
(***************************************************************************)
(* Model of the structured-output interpreter of Sigmoid_GenAI_Streamlit.py *)
(* (extract_code_segments, execute_analysis) and of the part of main that   *)
(* submits a request, keeps the analysis history and deletes its entries.   *)
(*                                                                          *)
(* Text is a sequence of tokens.  A token is one character (" ", "\n", a    *)
(* non-whitespace character) or one whole delimiter ("<code>", "</code>",   *)
(* ...).  A delimiter starts with "<", ends with ">" and holds neither in   *)
(* between, so two delimiters never overlap in a text and reading a text    *)
(* delimiter by delimiter loses nothing the regular expressions see.        *)
(*   "x"   a character of a simple statement (as in  total = 1)             *)
(*   "b"   a character of a compound-statement header (as in  if c:)        *)
(*   "{v}" an interpolation of the name v in the answer template            *)
(* An optional value (None in the program) is <<>>, a present value v is    *)
(* <<v>>.                                                                   *)
(***************************************************************************)
EXTENDS Naturals, Sequences, FiniteSets

VARIABLES
    pc,             \* "idle" | "returned" | "escaped" | "not_called": how the
                    \* call of execute_analysis of the script run ended
    main_pc,        \* "idle" | "history" | "raised": how far main got
    query,          \* main: query ("" when none was submitted)
    chat_history,   \* st.session_state.chat_history
    n,              \* number of requests submitted so far
    text,           \* response_text of the request
    beh,            \* what the generated code of the request does when run
    segments,       \* execute_analysis: segments
    results,        \* execute_analysis: results
    dedented_code,  \* execute_analysis: dedented_code (optional)
    dedented_chart, \* execute_analysis: dedented_chart (optional)
    code_exec,      \* outcome of exec(combined_code, namespace)
    chart_exec,     \* outcome of exec(dedented_chart, namespace)
    namespace,      \* names bound in namespace when execute_analysis ends
    chart_ns,       \* names bound in namespace when the chart unit starts (optional)
    df,             \* st.session_state.df: the columns of the dataset (optional)
    seen,           \* the dataset and pyplot's state as the request found them
    plt             \* the state of matplotlib.pyplot

vars == <<pc, main_pc, query, chat_history, n, text, beh, segments, results, dedented_code, dedented_chart,
          code_exec, chart_exec, namespace, chart_ns, df, seen, plt>>

\* ------------------------------------------------------------------ bounds

MaxRequests == 2
MaxSubmits == 3
MaxTextLen == 4
MaxSegLen == 7

\* ------------------------------------------------------------ optional values

None == <<>>
Some(v) == <<v>>

\* ------------------------------------------------------------------ str methods

SP == " "
NL == "\n"

IsSpace(c) == c \in {SP, NL}

RECURSIVE lstrip(_)
lstrip(s) == IF s # <<>> /\ IsSpace(Head(s)) THEN lstrip(Tail(s)) ELSE s

RECURSIVE rstrip(_)
rstrip(s) ==
    IF s # <<>> /\ IsSpace(s[Len(s)]) THEN rstrip(SubSeq(s, 1, Len(s) - 1)) ELSE s

strip(s) == rstrip(lstrip(s))

\* s.split('\n')
RECURSIVE split(_)
split(s) ==
    IF \A i \in 1..Len(s) : s[i] # NL
    THEN <<s>>
    ELSE LET i == CHOOSE k \in 1..Len(s) :
                      s[k] = NL /\ \A m \in 1..(k - 1) : s[m] # NL
         IN  <<SubSeq(s, 1, i - 1)>> \o split(SubSeq(s, i + 1, Len(s)))

\* '\n'.join(lines)
RECURSIVE join(_)
join(lines) ==
    IF lines = <<>> THEN <<>>
    ELSE IF Len(lines) = 1 THEN lines[1]
    ELSE lines[1] \o <<NL>> \o join(Tail(lines))

\* line[k:]
SliceFrom(line, k) == SubSeq(line, k + 1, Len(line))

\* ------------------------------------------------------------ Segment Extractor

Names == {"approach", "code", "chart", "answer"}

OpenTag(name) ==
    CASE name = "approach" -> "<approach>"
      [] name = "code" -> "<code>"
      [] name = "chart" -> "<chart>"
      [] name = "answer" -> "<answer>"

CloseTag(name) ==
    CASE name = "approach" -> "</approach>"
      [] name = "code" -> "</code>"
      [] name = "chart" -> "</chart>"
      [] name = "answer" -> "</answer>"

\* Whether the pattern <name>(.*?)</name> matches starting at position i: the
\* opening delimiter is at i and the lazy group can be extended to a closing one.
MatchesAt(s, name, i) ==
    /\ s[i] = OpenTag(name)
    /\ \E j \in (i + 1)..Len(s) : s[j] = CloseTag(name)

\* The greedy pattern <name>(.*)</name>: the group runs to the last closing
\* delimiter.
RECURSIVE SearchFromGreedy(_, _, _)
SearchFromGreedy(s, name, i) ==
    IF i > Len(s) THEN None
    ELSE IF MatchesAt(s, name, i)
    THEN LET j == CHOOSE k \in (i + 1)..Len(s) :
                      /\ s[k] = CloseTag(name)
                      /\ \A m \in (k + 1)..Len(s) : s[m] # CloseTag(name)
         IN  Some(SubSeq(s, i + 1, j - 1))
    ELSE SearchFromGreedy(s, name, i + 1)

\* re.search(r'<name>(.*?)</name>', s, re.DOTALL): the leftmost start position at
\* which the pattern matches, the lazy group ending at the first closing delimiter
\* after it.  The value is group(1), or None when there is no match.
RECURSIVE SearchFrom(_, _, _)
SearchFrom(s, name, i) ==
    IF i > Len(s) THEN None
    ELSE IF MatchesAt(s, name, i)
    THEN LET j == CHOOSE k \in (i + 1)..Len(s) :
                      /\ s[k] = CloseTag(name)
                      /\ \A m \in (i + 1)..(k - 1) : s[m] # CloseTag(name)
         IN  Some(SubSeq(s, i + 1, j - 1))
    ELSE SearchFrom(s, name, i + 1)

\* re.match in place of re.search: the pattern is tried at the start only.
re_match(s, name) ==
    IF s # <<>> /\ MatchesAt(s, name, 1) THEN SearchFrom(s, name, 1) ELSE None

re_search(s, name) == SearchFrom(s, name, 1)

\* The four searches of extract_code_segments, each on the whole response text;
\* a key is set when its search matched, to the group stripped.
extract_code_segments(response_text) ==
    LET found == {name \in Names : re_search(response_text, name) # None}
    IN  [name \in found |-> strip(re_search(response_text, name)[1])]

\* ------------------------------------------------------------ Source Normalizer

\* len(line) - len(line.lstrip())
Indent(line) == Len(line) - Len(lstrip(line))

\* line.strip() is truthy
NonBlank(line) == strip(line) # <<>>

\* The loop of lines 176-180: min_indent starts as float('inf') (here None) and is
\* lowered by every non-blank line.
RECURSIVE MinIndentLoop(_, _)
MinIndentLoop(lines, acc) ==
    IF lines = <<>> THEN acc
    ELSE LET line == Head(lines)
             new == IF NonBlank(line)
                    THEN IF acc = None \/ Indent(line) < acc[1]
                         THEN Some(Indent(line)) ELSE acc
                    ELSE acc
         IN  MinIndentLoop(Tail(lines), new)

min_indent(lines) == MinIndentLoop(lines, None)

\* The slice one character off: line[min_indent + 1:].
DedentLineOffByOne(line, mi) ==
    IF NonBlank(line) THEN SliceFrom(line, mi[1] + 1) ELSE <<>>

\* line[min_indent:] if line.strip() else ''   (a non-blank line makes min_indent
\* a number, so the slice never sees float('inf'))
DedentLine(line, mi) == IF NonBlank(line) THEN SliceFrom(line, mi[1]) ELSE <<>>

\* Lines 174-183 (and 198-207): strip, split, find the minimum indentation of the
\* non-blank lines, cut it from each and join.
Dedent(segment) ==
    LET lines == split(strip(segment))
        mi == min_indent(lines)
    IN  join([i \in 1..Len(lines) |-> DedentLine(lines[i], mi)])

\* --------------------------------------------------- exec: what Python accepts

\* A logical line opens a block when it is a compound-statement header.
OpensBlock(line) == Head(lstrip(line)) = "b"

\* The indentation levels left after a dedent to column c.
RECURSIVE PopTo(_, _)
PopTo(stack, c) ==
    IF Len(stack) > 1 /\ stack[Len(stack)] > c
    THEN PopTo(SubSeq(stack, 1, Len(stack) - 1), c)
    ELSE stack

\* Python's indentation rules over the lines of a source text: blank lines are
\* skipped; a deeper line is accepted only right after a header, a header must
\* be followed by a deeper line, and a dedent must return to an open level.
RECURSIVE IndentationOK(_, _, _)
IndentationOK(lines, stack, afterHeader) ==
    IF lines = <<>> THEN ~afterHeader
    ELSE LET line == Head(lines)
             c == Indent(line)
             top == stack[Len(stack)]
         IN  IF ~NonBlank(line) THEN IndentationOK(Tail(lines), stack, afterHeader)
             ELSE IF c > top
             THEN afterHeader
                  /\ IndentationOK(Tail(lines), Append(stack, c), OpensBlock(line))
             ELSE /\ ~afterHeader
                  /\ PopTo(stack, c)[Len(PopTo(stack, c))] = c
                  /\ IndentationOK(Tail(lines), PopTo(stack, c), OpensBlock(line))

\* compile(source): no IndentationError / SyntaxError
Compiles(source) == IndentationOK(split(source), <<0>>, FALSE)

\* Lines 186-191: a newline, the dedented code, a blank line, a comment and the
\* assignment of the answer template (one simple statement at column 0; the
\* template's own line breaks are inside its triple-quoted literal).
combined_code(dedented) == <<NL>> \o dedented \o <<NL, NL, "x", NL>>

\* The f-string of line 190: an interpolation {v} reads the name v.
NeedsV(template) == \E i \in 1..Len(template) : template[i] = "{v}"

Render(template) ==
    [i \in 1..Len(template) |-> IF template[i] = "{v}" THEN "42" ELSE template[i]]

\* ------------------------------------------------------------------- pyplot

\* The state of matplotlib.pyplot, one for the whole process: figs, the open
\* figures, oldest first, the last being the current one; rc, the style settings
\* (rcParams) a new figure is made with.  A figure is its number and its style.
PltInit == [figs |-> <<>>, rc |-> "default"]

\* plt.figure(): a new figure, numbered one above the highest open one, becomes
\* the current figure.
NextNum(fg) ==
    IF fg = <<>> THEN 1
    ELSE 1 + CHOOSE m \in {fg[i].num : i \in 1..Len(fg)} :
                 \A i \in 1..Len(fg) : fg[i].num <= m

plt_figure(m) ==
    [m EXCEPT !.figs = Append(@, [num |-> NextNum(@), style |-> m.rc])]

\* plt.gcf(): the current figure, made first when none is open.
plt_gcf(m) == IF m.figs = <<>> THEN plt_figure(m) ELSE m

\* plt.close(): closes the current figure only.
plt_close(m) ==
    IF m.figs = <<>> THEN m
    ELSE [m EXCEPT !.figs = SubSeq(@, 1, Len(@) - 1)]

\* sns.set_theme(style="whitegrid"), which the prompt asks the chart code for
\* (lines 311-313): it rewrites the process-wide rcParams.
sns_set_theme(m) == [m EXCEPT !.rc = "whitegrid"]

\* What the chart code does with pyplot's figures: draw on the current one, open
\* one of its own (plt.figure(figsize=(8, 5)), the prompt's line 310), or close
\* them all.
FigOps == {"plot", "figure", "close_all"}

ApplyFigOp(m, op) ==
    CASE op = "plot" -> m
      [] op = "figure" -> plt_figure(m)
      [] op = "close_all" -> [m EXCEPT !.figs = <<>>]

\* ------------------------------------------------------- generated code's behaviour

\* run: "ok" the code runs to its end; "raise" it raises an Exception; "exit" it
\* raises SystemExit (sys.exit(), exit()), which is a BaseException and not an
\* Exception.  mut: it changes df in place (df['tmp'] = ...).  binds: it assigns v.
\* figop: see FigOps.  theme: it calls sns.set_theme.  BehavioursOf, below, gives
\* the behaviours of the code of one response.
Runs == {"ok", "raise", "exit"}

NoBehaviour ==
    [code |-> [run |-> "ok", mut |-> FALSE, binds |-> FALSE],
     chart |-> [run |-> "ok", figop |-> "plot", theme |-> FALSE]]

\* The columns of the dataset as load_data_file reads it from its file.
DfColumns == {"sales"}

\* ---------------------------------------------------------- execute_analysis

InitialResults ==
    [approach |-> None, answer |-> None, figure |-> None,
     code |-> None, chart_code |-> None]

InitialNamespace == {"df", "pd", "plt", "sns"}

\* The raw code kept only inside the branch that runs it (code and answer both
\* present).
StoreRawWhenRun(r, seg) ==
    [r EXCEPT
        !.approach = IF "approach" \in DOMAIN seg THEN Some(seg["approach"]) ELSE @,
        !.code = IF {"code", "answer"} \subseteq DOMAIN seg
                 THEN Some(seg["code"]) ELSE @,
        !.chart_code = IF "chart" \in DOMAIN seg THEN Some(seg["chart"]) ELSE @]

\* Lines 160-166
StoreRaw(r, seg) ==
    [r EXCEPT
        !.approach = IF "approach" \in DOMAIN seg THEN Some(seg["approach"]) ELSE @,
        !.code = IF "code" \in DOMAIN seg THEN Some(seg["code"]) ELSE @,
        !.chart_code = IF "chart" \in DOMAIN seg THEN Some(seg["chart"]) ELSE @]

\* The unit guarded by the code segment alone (if 'code' in segments), with an
\* empty template when the answer segment is missing.
CodeUnitCodeOnly(seg, ns, dfv, cb) ==
    IF "code" \notin DOMAIN seg
    THEN [status |-> "skipped", answer |-> None, ns |-> ns, df |-> dfv,
          dedented |-> None]
    ELSE LET ded == Dedent(seg["code"])
             template == IF "answer" \in DOMAIN seg THEN seg["answer"] ELSE <<>>
             df1 == IF cb.mut THEN dfv \cup {"tmp"} ELSE dfv
             ns1 == IF cb.binds THEN ns \cup {"v"} ELSE ns
         IN  IF ~Compiles(combined_code(ded))
             THEN [status |-> "SyntaxError", answer |-> None, ns |-> ns,
                   df |-> dfv, dedented |-> Some(ded)]
             ELSE IF cb.run = "raise"
             THEN [status |-> "Exception", answer |-> None, ns |-> ns1,
                   df |-> df1, dedented |-> Some(ded)]
             ELSE IF cb.run = "exit"
             THEN [status |-> "SystemExit", answer |-> None, ns |-> ns1,
                   df |-> df1, dedented |-> Some(ded)]
             ELSE IF NeedsV(template) /\ "v" \notin ns1
             THEN [status |-> "NameError", answer |-> None, ns |-> ns1,
                   df |-> df1, dedented |-> Some(ded)]
             ELSE [status |-> "ok", answer |-> Some(Render(template)),
                   ns |-> ns1 \cup {"answer_text"}, df |-> df1,
                   dedented |-> Some(ded)]

\* Lines 172-193: the combined code+answer unit.  status is "skipped", "ok", or
\* the exception exec raised.
CodeUnit(seg, ns, dfv, cb) ==
    IF ~({"code", "answer"} \subseteq DOMAIN seg)
    THEN [status |-> "skipped", answer |-> None, ns |-> ns, df |-> dfv,
          dedented |-> None]
    ELSE LET ded == Dedent(seg["code"])
             df1 == IF cb.mut THEN dfv \cup {"tmp"} ELSE dfv
             ns1 == IF cb.binds THEN ns \cup {"v"} ELSE ns
         IN  IF ~Compiles(combined_code(ded))
             THEN [status |-> "SyntaxError", answer |-> None, ns |-> ns,
                   df |-> dfv, dedented |-> Some(ded)]
             ELSE IF cb.run = "raise"
             THEN [status |-> "Exception", answer |-> None, ns |-> ns1,
                   df |-> df1, dedented |-> Some(ded)]
             ELSE IF cb.run = "exit"
             THEN [status |-> "SystemExit", answer |-> None, ns |-> ns1,
                   df |-> df1, dedented |-> Some(ded)]
             ELSE IF NeedsV(seg["answer"]) /\ "v" \notin ns1
             THEN [status |-> "NameError", answer |-> None, ns |-> ns1,
                   df |-> df1, dedented |-> Some(ded)]
             ELSE [status |-> "ok", answer |-> Some(Render(seg["answer"])),
                   ns |-> ns1 \cup {"answer_text"}, df |-> df1,
                   dedented |-> Some(ded)]

\* Lines 196-213: the chart unit.  m is pyplot's state.
ChartUnit(seg, m, hb) ==
    IF "chart" \notin DOMAIN seg
    THEN [status |-> "skipped", figure |-> None, plt |-> m, dedented |-> None]
    ELSE LET ded == Dedent(seg["chart"])
             opened == plt_figure(m)
             themed == IF hb.theme THEN sns_set_theme(opened) ELSE opened
             drawn == ApplyFigOp(themed, hb.figop)
             got == plt_gcf(drawn)
         IN  IF ~Compiles(ded)
             THEN [status |-> "SyntaxError", figure |-> None, plt |-> opened,
                   dedented |-> Some(ded)]
             ELSE IF hb.run = "raise"
             THEN [status |-> "Exception", figure |-> None, plt |-> drawn,
                   dedented |-> Some(ded)]
             ELSE IF hb.run = "exit"
             THEN [status |-> "SystemExit", figure |-> None, plt |-> drawn,
                   dedented |-> Some(ded)]
             ELSE [status |-> "ok", figure |-> Some(got.figs[Len(got.figs)]),
                   plt |-> plt_close(got), dedented |-> Some(ded)]

\* except Exception (line 217): SystemExit is not an Exception.
Caught(exc) == exc \in {"SyntaxError", "Exception", "NameError"}

Failed(status) == status \notin {"ok", "skipped"}

\* The answer stored only once the chart unit is through.
ResultsAnswerLate(cu, hu, r1, r2, r3) ==
    IF Failed(cu.status) \/ Failed(hu.status) THEN r1 ELSE r3

\* The results dict as the return of line 215 or the handler of lines 217-219
\* finds it: r1 after lines 160-166, r2 after line 193, r3 after line 212.
ResultsAtExit(cu, hu, r1, r2, r3) ==
    IF Failed(cu.status) THEN r1
    ELSE IF Failed(hu.status) THEN r2
    ELSE r3

\* Lines 142-219.  end is "returned" when the function returns results and
\* "escaped" when an exception leaves it.  An exception in the code unit skips
\* the chart unit: both are inside the one try block.
execute_analysis(dfv, m, response_text, b) ==
    LET seg == extract_code_segments(response_text)
        r1 == StoreRaw(InitialResults, seg)
        cu == CodeUnit(seg, InitialNamespace, dfv, b.code)
        r2 == [r1 EXCEPT !.answer = cu.answer]
        hu == IF Failed(cu.status)
              THEN [status |-> "skipped", figure |-> None, plt |-> m,
                    dedented |-> None]
              ELSE ChartUnit(seg, m, b.chart)
        r3 == [r2 EXCEPT !.figure = hu.figure]
        raised == IF Failed(cu.status) THEN cu.status
                  ELSE IF Failed(hu.status) THEN hu.status
                  ELSE "none"
    IN  IF DOMAIN seg = {}
        THEN [end |-> "returned", segments |-> seg, results |-> InitialResults,
              code |-> cu, chart |-> hu, chart_ns |-> None]
        ELSE [end |-> IF raised = "none" \/ Caught(raised)
                      THEN "returned" ELSE "escaped",
              segments |-> seg,
              results |-> ResultsAtExit(cu, hu, r1, r2, r3),
              code |-> cu, chart |-> hu,
              chart_ns |-> IF Failed(cu.status) \/ hu.status = "skipped"
                           THEN None ELSE Some(cu.ns)]

\* ------------------------------------------- analyze_data_with_execution, main

\* How the part of analyze_data_with_execution around execute_analysis goes:
\* "prompt_unreadable" the open of lines 241-249 fails, "bad_status" the
\* endpoint answers with another status than 200 (lines 358-361), "exception"
\* requests.post or the reading of the response raises (lines 371-373).  The
\* data source comes from the radio of lines 504-510, whose options are the keys
\* of prompt_mapping, so get_prompt_file always finds a file.
Outcomes == {"ok", "prompt_unreadable", "bad_status", "exception"}

\* Lines 232-373.  With another outcome than "ok" execute_analysis is not
\* called and the function returns None.
analyze_data_with_execution(dfv, m, response_text, b, outcome) ==
    IF outcome = "ok"
    THEN execute_analysis(dfv, m, response_text, b)
    ELSE [end |-> "not_called", segments |-> extract_code_segments(<<>>),
          results |-> InitialResults,
          code |-> [status |-> "skipped", answer |-> None,
                    ns |-> InitialNamespace, df |-> dfv, dedented |-> None],
          chart |-> [status |-> "skipped", figure |-> None, plt |-> m,
                     dedented |-> None],
          chart_ns |-> None]

\* What the call of line 595 hands to main: the results record, or None.
Returned(out) == IF out.end = "returned" THEN Some(out.results) ELSE None

\* Every submitted query is stored, also one equal to the last entry's.
AppendEntryAlways(history, q) == Append(history, [query |-> q])

\* Lines 607-619.  Of the entry only the query is kept here: it is the one field
\* main reads again when it stores or deletes an entry.
AppendEntry(history, q) ==
    IF history = <<>> \/ history[Len(history)].query # q
    THEN Append(history, [query |-> q])
    ELSE history

\* Lines 602-625 after the call of line 595.  time_taken is assigned at line
\* 622, inside "if results:", and read at line 625, outside it: with no results
\* the read raises UnboundLocalError and the run ends before the history section
\* of line 628.  An exception that left execute_analysis leaves main as well.
AfterAnalyze(out, history, q) ==
    IF out.end = "escaped"
    THEN [history |-> history, end |-> "raised"]
    ELSE IF Returned(out) = None
    THEN [history |-> history, end |-> "raised"]
    ELSE [history |-> AppendEntry(history, q), end |-> "history"]

\* list.pop(original_idx), line 668; i is original_idx + 1.
pop(history, i) == SubSeq(history, 1, i - 1) \o SubSeq(history, i + 1, Len(history))

\* -------------------------------------------------------------------- actions

Init ==
    /\ pc = "idle"
    /\ main_pc = "idle"
    /\ query = ""
    /\ chat_history = <<>>
    /\ n = 0
    /\ text = <<>>
    /\ beh = NoBehaviour
    /\ segments = extract_code_segments(<<>>)
    /\ results = InitialResults
    /\ dedented_code = None
    /\ dedented_chart = None
    /\ code_exec = "skipped"
    /\ chart_exec = "skipped"
    /\ namespace = InitialNamespace
    /\ chart_ns = None
    /\ df = None
    /\ seen = None
    /\ plt = PltInit

\* main, lines 517-523: every script run reads the dataset again; a read that
\* fails (load_data_file returns None) leaves st.session_state.df as it was.
LoadData(session_df, loaded) == IF loaded THEN Some(DfColumns) ELSE session_df

\* One script run of main in which the Analyze button was pressed with a query
\* and the endpoint delivered response_text: lines 517-523, 546-551 (no dataset:
\* the run ends before the query) and 589-600, where the session's dataset goes
\* to execute_analysis (line 367) by reference, then lines 602-625.  q is the
\* query, outcome how analyze_data_with_execution goes.
Submit(response_text, b, loaded, q, outcome) ==
    /\ pc = "idle"
    /\ LoadData(df, loaded) # None
    /\ \E out \in {analyze_data_with_execution(LoadData(df, loaded)[1], plt,
                                                response_text, b, outcome)} :
           /\ pc' = out.end
           /\ \E after \in {AfterAnalyze(out, chat_history, q)} :
                  /\ chat_history' = after.history
                  /\ main_pc' = after.end
           /\ segments' = out.segments
           /\ results' = out.results
           /\ dedented_code' = out.code.dedented
           /\ dedented_chart' = out.chart.dedented
           /\ code_exec' = out.code.status
           /\ chart_exec' = out.chart.status
           /\ namespace' = out.code.ns
           /\ chart_ns' = out.chart_ns
           /\ df' = Some(out.code.df)
           /\ plt' = out.chart.plt
    /\ n' = n + 1
    /\ text' = response_text
    /\ beh' = b
    /\ query' = q
    /\ seen' = Some([df |-> LoadData(df, loaded)[1], plt |-> plt,
                     chat_history |-> chat_history])

\* A script run in which the delete button of entry original_idx = i - 1 was
\* pressed: lines 517-523, 546-551, then lines 667-669.  st.rerun() ends the run.
Delete(i, loaded) ==
    /\ pc = "idle"
    /\ LoadData(df, loaded) # None
    /\ i \in 1..Len(chat_history)
    /\ chat_history' = pop(chat_history, i)
    /\ df' = LoadData(df, loaded)
    /\ UNCHANGED <<pc, main_pc, query, n, text, beh, segments, results,
                   dedented_code, dedented_chart, code_exec, chart_exec,
                   namespace, chart_ns, seen, plt>>

\* The script run ends: its locals are gone; the session's dataset and pyplot's
\* state stay.
ScriptEnd ==
    /\ pc \in {"returned", "escaped", "not_called"}
    /\ pc' = "idle"
    /\ main_pc' = "idle"
    /\ query' = ""
    /\ text' = <<>>
    /\ beh' = NoBehaviour
    /\ segments' = extract_code_segments(<<>>)
    /\ results' = InitialResults
    /\ dedented_code' = None
    /\ dedented_chart' = None
    /\ code_exec' = "skipped"
    /\ chart_exec' = "skipped"
    /\ namespace' = InitialNamespace
    /\ chart_ns' = None
    /\ seen' = None
    /\ UNCHANGED <<n, df, plt, chat_history>>

\* ------------------------------------------------------------- request texts

Segment(name, body) == <<OpenTag(name)>> \o body \o <<CloseTag(name)>>

Optional(name, bodies) == {<<>>} \cup {Segment(name, body) : body \in bodies}

\* Bodies of the segments of a request: code that compiles and code that does
\* not (a header without its block), a chart that compiles and one that does not
\* (an unexpected indent), an answer with and without an interpolation.
CodeBodies == { <<"x">>, <<"b">> }

ChartBodies == { <<"x">>, <<"x", NL, SP, "x">> }

AnswerBodies == { <<"x">>, <<"x", "{v}">> }

RequestTexts ==
    { c \o h \o w :
        c \in Optional("code", CodeBodies), h \in Optional("chart", ChartBodies),
        w \in Optional("answer", AnswerBodies) }

\* The behaviours of the code a response carries: a unit the response does not
\* carry has no behaviour of its own.
BehavioursOf(response_text) ==
    LET seg == extract_code_segments(response_text)
    IN  { [code |-> cb, chart |-> hb] :
            cb \in IF {"code", "answer"} \subseteq DOMAIN seg
                   THEN [run : Runs, mut : BOOLEAN, binds : BOOLEAN]
                   ELSE {NoBehaviour.code},
            hb \in IF "chart" \in DOMAIN seg
                   THEN [run : Runs, figop : FigOps, theme : BOOLEAN]
                   ELSE {NoBehaviour.chart} }

RequestInputs ==
    UNION { {<<t, b>> : b \in BehavioursOf(t)} : t \in RequestTexts }

SubmitRequest ==
    /\ n < MaxRequests
    /\ \E in \in RequestInputs, loaded \in BOOLEAN : Submit(in[1], in[2], loaded, "q1", "ok")

Next == SubmitRequest \/ ScriptEnd

Spec == Init /\ [][Next]_vars

\* ------------------------------------------- one segment, any text inside

SeqsUpTo(alphabet, k) == UNION {[1..m -> alphabet] : m \in 0..k}

SegTexts == SeqsUpTo({SP, NL, "x", "b"}, MaxSegLen)

\* A response whose code segment (with a plain answer) or chart segment holds
\* the text inner between its delimiters.
Wrap(name, inner) ==
    IF name = "code"
    THEN Segment("code", inner) \o Segment("answer", <<"x">>)
    ELSE Segment("chart", inner)

SubmitSegment ==
    /\ n = 0
    /\ \E inner \in SegTexts, name \in {"code", "chart"} :
           Submit(Wrap(name, inner), NoBehaviour, TRUE, "q1", "ok")

NextSeg == SubmitSegment \/ ScriptEnd

SpecSeg == Init /\ [][NextSeg]_vars

\* ------------------------------------------------ any text of delimiters

Delimiters == {OpenTag(name) : name \in Names} \cup {CloseTag(name) : name \in Names}

TokenTexts == SeqsUpTo(Delimiters \cup {"x", SP}, MaxTextLen)

SubmitTokens ==
    /\ n = 0
    /\ \E t \in TokenTexts : Submit(t, NoBehaviour, TRUE, "q1", "ok")

NextExtract == SubmitTokens \/ ScriptEnd

SpecExtract == Init /\ [][NextExtract]_vars

\* ------------------------------------------- queries, failures, deletions

Queries == {"q1", "q2", "q3"}

\* A response with a plain code and answer segment; its code runs through,
\* raises, or exits.
HistoryText == Segment("code", <<"x">>) \o Segment("answer", <<"x">>)

HistoryBehaviours ==
    { [NoBehaviour EXCEPT !.code.run = r] : r \in Runs }

SubmitQuery ==
    /\ n < MaxSubmits
    /\ \E q \in Queries, b \in HistoryBehaviours, loaded \in BOOLEAN :
           Submit(HistoryText, b, loaded, q, "ok")

\* A submit in which analyze_data_with_execution does not get to
\* execute_analysis.
SubmitFailed ==
    /\ n < MaxSubmits
    /\ \E q \in Queries, outcome \in Outcomes \ {"ok"}, loaded \in BOOLEAN :
           Submit(<<>>, NoBehaviour, loaded, q, outcome)

DeleteEntry ==
    \E i \in 1..Len(chat_history), loaded \in BOOLEAN : Delete(i, loaded)

NextHistory == SubmitQuery \/ SubmitFailed \/ DeleteEntry \/ ScriptEnd

SpecHistory == Init /\ [][NextHistory]_vars

\* ===================================================================== claims

Fields == {"approach", "answer", "figure", "code", "chart_code"}

\* The text between the delimiters of a segment, as group(1) holds it.
RawInner(name) == re_search(text, name)[1]

NonBlankLines(source) == SelectSeq(split(source), NonBlank)

\* The text execute_analysis handed to exec for a segment (optional).
Executed(name) == IF name = "code" THEN dedented_code ELSE dedented_chart

\* C1: execute_analysis always returns a record of the five fields and no
\* exception escapes to the caller, whatever the response text and whatever
\* fails while the generated units are extracted, normalised or run.
C1_AlwaysReturnsResult ==
    pc \notin {"idle", "not_called"} => (pc = "returned" /\ DOMAIN results = Fields)

\* C2: when the combined code+answer unit fails (syntax error, runtime exception,
\* failing answer template) and a valid chart segment is present, the answer is
\* absent, the chart unit is still executed and the figure is not null.
C2_ChartRunsAfterCodeFailure ==
    ( /\ pc # "idle"
      /\ Caught(code_exec)
      /\ "chart" \in DOMAIN segments
      /\ Compiles(Dedent(segments["chart"]))
      /\ beh.chart.run = "ok" )
    => ( /\ pc = "returned"
         /\ results.answer = None
         /\ chart_exec = "ok"
         /\ results.figure # None )

C5_UniformIndentRemoved ==
    ( /\ pc # "idle"
      /\ {"code", "answer"} \subseteq DOMAIN segments
      /\ beh.code.run = "ok"
      /\ NonBlankLines(RawInner("code")) # <<>>
      /\ LET raw == NonBlankLines(RawInner("code"))
             k == min_indent(raw)[1]
             cut == [i \in 1..Len(raw) |-> SliceFrom(raw[i], k)]
         IN  k >= 1 /\ Compiles(combined_code(join(cut))) )
    => LET raw == NonBlankLines(RawInner("code"))
           k == min_indent(raw)[1]
           run == NonBlankLines(dedented_code[1])
       IN  /\ Len(run) = Len(raw)
           /\ \A i \in 1..Len(raw) :
                  /\ Indent(run[i]) = Indent(raw[i]) - k
                  /\ strip(run[i]) = strip(raw[i])
           /\ code_exec = "ok"
           /\ results.answer # None

\* C6: normalisation preserves relative indentation: a non-blank line written d
\* characters deeper than another between the delimiters (the first line
\* included) is exactly d characters deeper in the text that is executed.
C6_RelativeIndentKept ==
    \A name \in {"code", "chart"} :
        (pc # "idle" /\ Executed(name) # None) =>
            LET raw == NonBlankLines(RawInner(name))
                run == NonBlankLines(Executed(name)[1])
            IN  /\ Len(run) = Len(raw)
                /\ \A i, j \in 1..Len(raw) :
                       Indent(run[i]) + Indent(raw[j]) = Indent(run[j]) + Indent(raw[i])

\* C7: normalisation is idempotent: normalising the text a segment was normalised
\* to gives that text again, and an empty or all-blank segment is normalised to
\* the empty text.
C7_NormalizeIdempotent ==
    \A name \in {"code", "chart"} :
        (pc # "idle" /\ Executed(name) # None) =>
            /\ Executed(name)[1] = Dedent(RawInner(name))
            /\ Dedent(Executed(name)[1]) = Executed(name)[1]
            /\ strip(RawInner(name)) = <<>> => Executed(name)[1] = <<>>

C7_Witness ==
    /\ pc = "returned"
    /\ dedented_code # None
    /\ dedented_code[1] # <<>>
    /\ dedented_code[1] # strip(RawInner("code"))

\* C8: no figure opened during a request is still open when a later request
\* starts.
C8_NoFigureLeftOpen == pc = "idle" => plt.figs = <<>>

\* C9: what the units of a request observe does not depend on what the generated
\* code of earlier requests did: they find the dataset as its file holds it and
\* the library handles of their namespace with their initial settings.
C9_NothingLeaksIn ==
    (pc # "idle" /\ (code_exec # "skipped" \/ chart_exec # "skipped"))
    => /\ seen[1].df = DfColumns
       /\ seen[1].plt.rc = PltInit.rc

\* C10: for each of the four names, the key is in the SegmentSet if and only if
\* the input holds the opening delimiter followed later by the closing one.
C10_KeyIffOpenThenClose ==
    pc # "idle" =>
        \A name \in Names :
            name \in DOMAIN segments
            <=> \E i, j \in 1..Len(text) :
                    i < j /\ text[i] = OpenTag(name) /\ text[j] = CloseTag(name)

C10_Witness ==
    /\ pc = "returned"
    /\ \E a, c \in Names :
           /\ a \notin DOMAIN segments
           /\ \E i, j \in 1..Len(text) :
                  j < i /\ text[i] = OpenTag(a) /\ text[j] = CloseTag(a)
           /\ c \in DOMAIN segments

\* Positions of a token in the text of the request.
Positions(token) == {i \in 1..Len(text) : text[i] = token}

\* v is inner without the whitespace at its two ends.
IsTrimOf(v, inner) ==
    \E p \in 1..(Len(inner) + 1), q \in 0..Len(inner) :
        /\ v = SubSeq(inner, p, q)
        /\ \A i \in 1..(p - 1) : IsSpace(inner[i])
        /\ \A i \in (q + 1)..Len(inner) : IsSpace(inner[i])
        /\ v # <<>> => ~IsSpace(v[1]) /\ ~IsSpace(v[Len(v)])

\* C11: when the delimiters of a name occur more than once or nested, the value
\* extracted is the text between the first opening delimiter and the first
\* closing delimiter after it, trimmed of the whitespace at its ends.
C11_FirstOpenToFirstClose ==
    pc # "idle" =>
        \A name \in DOMAIN segments :
            LET i == CHOOSE k \in Positions(OpenTag(name)) :
                         \A m \in Positions(OpenTag(name)) : k <= m
                j == CHOOSE k \in Positions(CloseTag(name)) :
                         k > i /\ \A m \in Positions(CloseTag(name)) : m > i => k <= m
            IN  IsTrimOf(segments[name], SubSeq(text, i + 1, j - 1))

C11_Witness ==
    /\ pc = "returned"
    /\ \E name \in DOMAIN segments :
           /\ Cardinality(Positions(OpenTag(name))) > 1
           /\ Cardinality(Positions(CloseTag(name))) > 1
           /\ segments[name] # <<>>

\* C12: the analysis code runs, and the answer can be non-null, only when the
\* code and the answer segments are both present; with one of the two missing
\* nothing of the answer unit runs (no source is normalised, the namespace and
\* the dataset stay as they were), the answer stays null, and a chart unit of the
\* same request starts from the bindings df, pd, plt, sns alone.
C12_AnswerUnitNeedsBoth ==
    pc # "idle" =>
        /\ (code_exec # "skipped" \/ results.answer # None)
               => {"code", "answer"} \subseteq DOMAIN segments
        /\ ~({"code", "answer"} \subseteq DOMAIN segments)
               => /\ code_exec = "skipped"
                  /\ dedented_code = None
                  /\ results.answer = None
                  /\ namespace = {"df", "pd", "plt", "sns"}
                  /\ df = Some(seen[1].df)
                  /\ chart_exec # "skipped"
                         => chart_ns = Some({"df", "pd", "plt", "sns"})

C12_Witness ==
    /\ pc = "returned"
    /\ "code" \in DOMAIN segments
    /\ "answer" \notin DOMAIN segments
    /\ chart_exec = "ok"
    /\ chart_ns = Some({"df", "pd", "plt", "sns"})
    /\ results.code # None
    /\ results.answer = None

\* No two neighbours of the history carry the same query.
NoAdjacent(history) ==
    \A i \in 1..(Len(history) - 1) : history[i].query # history[i + 1].query

\* C13 (as stated): after any sequence of submitted analyses and deletions of
\* history entries, the chat history never holds two adjacent entries with the
\* same query.
C13_NoAdjacentSameQuery == NoAdjacent(chat_history)

\* C13 (amended): a submit leaves the history as it is or appends one entry
\* with the submitted query, and appends none whose query equals the last
\* entry's; so a history without two adjacent entries of the same query has
\* none after a submit.  (A deletion between two such entries is what brings
\* them together.)
C13_SubmitKeepsNoAdjacent ==
    [][ (pc = "idle" /\ pc' # "idle") =>
            /\ \/ chat_history' = chat_history
               \/ /\ chat_history' = Append(chat_history, [query |-> query'])
                  /\ \/ chat_history = <<>>
                     \/ chat_history[Len(chat_history)].query # query'
            /\ NoAdjacent(chat_history) => NoAdjacent(chat_history') ]_vars

C13_Witness ==
    /\ pc = "returned"
    /\ main_pc = "history"
    /\ seen[1].chat_history # <<>>
    /\ seen[1].chat_history[Len(seen[1].chat_history)].query = query
    /\ chat_history = seen[1].chat_history
    /\ NoAdjacent(chat_history)

\* C14: whenever a non-empty query is submitted and no exception leaves
\* execute_analysis, main gets through the submit step to the analysis history,
\* also when analyze_data_with_execution returns no result, and in that case the
\* chat history is what it was before the submit.
C14_SubmitReachesHistory ==
    (main_pc # "idle" /\ pc # "escaped") =>
        /\ main_pc = "history"
        /\ pc = "not_called" => chat_history = seen[1].chat_history

=============================================================================
